---- MODULE Spec2Model ----
(***************************************************************************)
(* Model of app.py, the Streamlit dashboard over the sample_mflix store.   *)
(* The store (movies, comments) is read-only input; the query functions    *)
(* are operators over it; a dashboard run is a sequence of steps (pc).     *)
(* Ratings are kept in tenths (8.1 is 81), so they stay integers.          *)
(***************************************************************************)
EXTENDS FiniteSets, Integers, Sequences, TLC

VARIABLES
    movies, comments,          \* the store's collections (read-only)
    handle,                    \* get_db's cached resource holds a handle
    clock, cache, requests,    \* st.cache_data: time, entries, store requests
    pc, runs, pings, invoked, error,   \* the script run
    sess,                      \* widget values the user has chosen
    year_range, sel_genres, min_rating, all_genres,
    movies_df, avg_year_df, genre_df, comments_df,
    screen,                    \* what the run rendered
    last,                      \* the last call through st.cache_data
    res                        \* result of a query function called on its own

store == <<movies, comments>>
filter == <<year_range, sel_genres, min_rating>>
locals == <<all_genres, movies_df, avg_year_df, genre_df, comments_df>>
dash == <<handle, clock, cache, requests, pc, runs, pings, invoked, error, sess,
          locals, screen, last>>
vars == <<store, filter, dash, res>>

(* ---------------- bounds of the model ---------------- *)
MaxDocs == 2
BigBatch == 700
MaxRuns == 2
MaxClock == 90
TickStep == 30

(* ---------------- program constants ---------------- *)
LIMIT == 1000
DEFAULT_YMIN == 2000
DEFAULT_YMAX == 2025
DEFAULT_MIN_RATING == 60      \* 6.0, in tenths
TTL == 60

(* ---------------- BSON / cell values ---------------- *)
(* One record shape for every value: t is the type tag, n/q a rational     *)
(* number n/q, s a string, a an array of strings.                         *)
Val(t, n, q, s, a) == [t |-> t, n |-> n, q |-> q, s |-> s, a |-> a]
Num(x) == Val("num", x, 1, "", <<>>)
Str(x) == Val("str", 0, 1, x, <<>>)
Arr(x) == Val("arr", 0, 1, "", x)
Date(x) == Val("date", x, 1, "", <<>>)
SubDoc(k, v) == Val("doc", v.n, v.q, k, <<>>)
Null == Val("null", 0, 1, "", <<>>)
Missing == Val("missing", 0, 1, "", <<>>)
NaN == Val("nan", 0, 1, "", <<>>)

Range(f) == {f[i] : i \in DOMAIN f}
Min(a, b) == IF a <= b THEN a ELSE b

RECURSIVE Gcd(_, _)
Gcd(a, b) == IF b = 0 THEN a ELSE Gcd(b, a % b)
Ratio(p, d) == LET g == Gcd(p, d) IN Val("num", p \div g, d \div g, "", <<>>)

(* Binary order of the strings the model uses (digits < upper < lower). *)
StrOrder == <<"1987", "2006x", "8.1", "Comedy", "Drama", "comedy", "drama">>
StrRank(s) == CHOOSE i \in DOMAIN StrOrder : StrOrder[i] = s

(* BSON comparison order across types: null < numbers < strings. *)
TypeRank(t) == CASE t = "missing" -> 0 [] t = "null" -> 1 [] t = "num" -> 2
                 [] t = "str" -> 3 [] t = "doc" -> 4 [] t = "arr" -> 5
                 [] t = "date" -> 6 [] OTHER -> 7
BsonLess(x, y) ==
    IF TypeRank(x.t) # TypeRank(y.t) THEN TypeRank(x.t) < TypeRank(y.t)
    ELSE CASE x.t = "num" -> x.n * y.q < y.n * x.q
           [] x.t = "date" -> x.n < y.n
           [] x.t = "str" -> StrRank(x.s) < StrRank(y.s)
           [] OTHER -> FALSE

(* ---------------- the store ---------------- *)
(* A movies entry stands for `copies` documents that differ only in _id.   *)
Movie(title, year, rating, genres, copies) ==
    [title |-> title, year |-> year, rating |-> rating, genres |-> genres,
     copies |-> copies]

SampleMovies == {
    Movie("A", Num(1999), Num(81), Arr(<<"Drama">>), 1),
    Movie("B", Num(2001), Num(70), Arr(<<"Drama", "Comedy">>), 1),
    Movie("C", Num(2001), Num(59), Arr(<<"Comedy">>), 1),
    Movie("D", Num(2001), Num(70), Arr(<<"drama", "Drama">>), BigBatch),
    Movie("E", Str("2006x"), Num(81), Arr(<<"Drama">>), 1),
    Movie("F", Num(1999), Str("8.1"), Null, 1),
    Movie("G", Missing, Missing, Missing, 1),
    Movie("H", Num(1999), Num(81), Null, BigBatch),
    Movie("I", Null, Num(90), Arr(<<>>), 1),
    Movie("K", Str("1987"), Num(64), Arr(<<"Comedy">>), 1) }

Comment(date) == [date |-> date]
SampleComments == {
    <<>>,
    <<Comment(Missing), Comment(Str("2006x"))>>,
    <<Comment(Date(25)), Comment(Missing), Comment(Date(30)), Comment(Date(50))>> }

SeqsUpTo(S, n) == UNION {[1..k -> S] : k \in 0..n}

(* ---------------- tables (pandas DataFrame) ---------------- *)
(* cols: the column labels; rows: the cells of each row by label, and how  *)
(* many identical rows the entry stands for.                               *)
EmptyDF == [cols |-> <<>>, rows |-> <<>>]
Columns(df) == Range(df.cols)
RowCount(df) == LET RECURSIVE Sum(_)
                    Sum(i) == IF i = 0 THEN 0 ELSE df.rows[i].copies + Sum(i - 1)
                IN Sum(Len(df.rows))
IsEmpty(df) == RowCount(df) = 0 \/ df.cols = <<>>

(* What a call returns: a table (or a tuple / list), or an exception. *)
Ok(df) == [st |-> "ok", err |-> "", df |-> df, pair |-> <<>>, list |-> <<>>]
OkPair(lo, hi) == [st |-> "ok", err |-> "", df |-> EmptyDF, pair |-> <<lo, hi>>, list |-> <<>>]
OkList(l) == [st |-> "ok", err |-> "", df |-> EmptyDF, pair |-> <<>>, list |-> l]
Raise(e) == [st |-> "raise", err |-> e, df |-> EmptyDF, pair |-> <<>>, list |-> <<>>]

(* str(x) of a cell, as astype(str) makes it. *)
AsStr(v) == Val("str", v.n, v.q, "astype(str)", <<>>)

(* to_df: `fields` is the key order of the cursor's documents. *)
to_df(cursor_or_iterable, drop_id, fields) ==
    LET rows == cursor_or_iterable
        Present(c) == \E i \in DOMAIN rows : rows[i].doc[c].t # "missing"
        all == SelectSeq(fields, Present)
        NotId(c) == c # "_id"
        cols == IF drop_id /\ "_id" \in Range(all) THEN SelectSeq(all, NotId) ELSE all
        Cell(v) == IF v.t = "missing" THEN NaN ELSE v
        HasDate(c) == \E i \in DOMAIN rows : rows[i].doc[c].t = "date"
        IsObject(c) == \/ \E i \in DOMAIN rows : rows[i].doc[c].t \in {"str", "doc", "arr"}
                       \/ HasDate(c) /\ \E i \in DOMAIN rows : rows[i].doc[c].t = "num"
        Fix(c, v) == IF IsObject(c) /\ HasDate(c) THEN AsStr(v) ELSE v
    IN  IF rows = <<>> THEN EmptyDF
        ELSE [cols |-> cols,
              rows |-> [i \in DOMAIN rows |->
                          [cells |-> [c \in Range(cols) |-> Fix(c, Cell(rows[i].doc[c]))],
                           copies |-> rows[i].copies]]]

(* pd.to_numeric(errors="coerce").astype("float64") of one cell. *)
ParseNumber(s) == CASE s = "1987" -> Num(1987) [] s = "8.1" -> Num(81) [] OTHER -> NaN
ToNumeric(v) == CASE v.t = "num" -> v
                  [] v.t = "str" -> ParseNumber(v.s)
                  [] OTHER -> NaN
CoerceCol(df, c) ==
    IF c \in Columns(df)
    THEN [df EXCEPT !.rows = [i \in DOMAIN df.rows |->
                                [df.rows[i] EXCEPT !.cells[c] = ToNumeric(@)]]]
    ELSE df

(* df.rename(columns={old: new}): a label that is not there is ignored. *)
Rename(df, old, new) ==
    LET Lab(c) == IF c = old THEN new ELSE c
        Back(c) == IF c = new /\ old \in Columns(df) THEN old ELSE c
        cols == [i \in DOMAIN df.cols |-> Lab(df.cols[i])]
    IN  [cols |-> cols,
         rows |-> [i \in DOMAIN df.rows |->
                     [cells |-> [c \in Range(cols) |-> df.rows[i].cells[Back(c)]],
                      copies |-> df.rows[i].copies]]]

(* df.dropna(subset=...): KeyError when a label of subset is no column. *)
DropNaRaises(df, subset) == \E c \in subset : c \notin Columns(df)
DropNa(df, subset) ==
    LET Keep(r) == \A c \in subset : r.cells[c].t \notin {"nan", "null"}
    IN  [df EXCEPT !.rows = SelectSeq(df.rows, Keep)]

(* df.head(n) *)
RECURSIVE Head_(_, _)
Head_(rows, n) ==
    IF rows = <<>> \/ n = 0 THEN <<>>
    ELSE IF Head(rows).copies <= n
         THEN <<Head(rows)>> \o Head_(Tail(rows), n - Head(rows).copies)
         ELSE <<[Head(rows) EXCEPT !.copies = n]>>

(* ---------------- match stages ---------------- *)
(* {"year": {"$gte": lo, "$lte": hi}}: only numbers compare with numbers *)
MatchYear(d, year_min, year_max) ==
    d.year.t = "num" /\ d.year.n >= year_min /\ d.year.n <= year_max
(* {"imdb.rating": {"$type": "number", "$gte": float(min_r)}} *)
MatchRating(d, min_r) == d.rating.t = "num" /\ d.rating.n >= min_r
(* {"genres": {"$in": genres}} *)
MatchGenresIn(d, genres) ==
    d.genres.t = "arr" /\ \E i \in DOMAIN d.genres.a : d.genres.a[i] \in Range(genres)
(* {"genres": {"$ne": None}} *)
MatchGenresNotNull(d) == d.genres.t \notin {"null", "missing"}

Perms(S) == {p \in [1..Cardinality(S) -> S] :
                \A i, j \in 1..Cardinality(S) : i # j => p[i] # p[j]}

(* ---------------- movies_filtered ---------------- *)
FindFields == <<"_id", "title", "year", "genres", "imdb">>
(* the projection {"title": 1, "year": 1, "genres": 1, "imdb.rating": 1} *)
Project(d) ==
    [doc |-> [c \in Range(FindFields) |->
                CASE c = "_id" -> Str(d.title)
                  [] c = "title" -> Str(d.title)
                  [] c = "year" -> d.year
                  [] c = "genres" -> d.genres
                  [] c = "imdb" -> IF d.rating.t = "missing" THEN Missing
                                   ELSE SubDoc("rating", d.rating)],
     copies |-> d.copies]

FilterMatches(d, year_min, year_max, genres, min_r) ==
    /\ MatchYear(d, year_min, year_max)
    /\ MatchRating(d, min_r)
    /\ (genres # <<>> => MatchGenresIn(d, genres))

(* .sort([("imdb.rating", -1), ("year", -1)]): a may come right before b *)
SortMayPrecede(a, b) ==
    \/ BsonLess(b.rating, a.rating)
    \/ ~BsonLess(a.rating, b.rating) /\ ~BsonLess(a.year, b.year)

LimitOff(rows, n) == rows
(* .limit(n) *)
Limit(rows, n) == Head_(rows, n)

(* the cursors find(...).sort(...).limit(1000) may yield (ties in any order) *)
FindCursors(year_min, year_max, genres, min_r) ==
    LET hit == {i \in DOMAIN movies :
                  FilterMatches(movies[i], year_min, year_max, genres, min_r)}
        n == Cardinality(hit)
        sorted == {p \in Perms(hit) :
                     \A i \in 1..(n - 1) : SortMayPrecede(movies[p[i]], movies[p[i + 1]])}
    IN  {Limit([i \in 1..n |-> Project(movies[p[i]])], LIMIT) : p \in sorted}

movies_filtered(year_min, year_max, genres, min_r) ==
    {Ok(CoerceCol(CoerceCol(to_df(cur, TRUE, FindFields), "year"), "imdb.rating")) :
        cur \in FindCursors(year_min, year_max, genres, min_r)}

(* ---------------- aggregation helpers ---------------- *)
RECURSIVE SumF(_, _)
SumF(f, S) == IF S = {} THEN 0
              ELSE LET x == CHOOSE y \in S : TRUE IN f[x] + SumF(f, S \ {x})

GroupDoc(cells) == [doc |-> cells, copies |-> 1]

RECURSIVE SortByIdDesc(_)
SortByIdDesc(docs) ==
    IF docs = {} THEN <<>>
    ELSE LET m == CHOOSE d \in docs :
                    \A e \in docs : ~BsonLess(d.doc["_id"], e.doc["_id"])
         IN  <<m>> \o SortByIdDesc(docs \ {m})
(* {"$sort": {"_id": 1}}: group keys are distinct, so the order is unique *)
RECURSIVE SortByIdAsc(_)
SortByIdAsc(docs) ==
    IF docs = {} THEN <<>>
    ELSE LET m == CHOOSE d \in docs :
                    \A e \in docs : ~BsonLess(e.doc["_id"], d.doc["_id"])
         IN  <<m>> \o SortByIdAsc(docs \ {m})

(* ---------------- agg_avg_rating_by_year ---------------- *)
AvgFields == <<"_id", "avgRating", "n">>
(* {"$group": {"_id": "$year", "avgRating": {"$avg": ...}, "n": {"$sum": 1}}} *)
GroupByYear(hit) ==
    LET Members(y) == {i \in hit : movies[i].year = y}
        total(y) == SumF([i \in Members(y) |-> movies[i].rating.n * movies[i].copies],
                         Members(y))
        cnt(y) == SumF([i \in Members(y) |-> movies[i].copies], Members(y))
    IN  {GroupDoc([c \in Range(AvgFields) |->
                     CASE c = "_id" -> y
                       [] c = "avgRating" -> Ratio(total(y), cnt(y))
                       [] c = "n" -> Num(cnt(y))]) :
            y \in {movies[i].year : i \in hit}}

agg_avg_rating_by_year(year_min, year_max, genres, min_r) ==
    LET hit == {i \in DOMAIN movies :
                  /\ MatchYear(movies[i], year_min, year_max)
                  /\ MatchRating(movies[i], min_r)
                  /\ (genres # <<>> => MatchGenresIn(movies[i], genres))}
        df0 == to_df(SortByIdAsc(GroupByYear(hit)), FALSE, AvgFields)
        df1 == Rename(df0, "_id", "year")
        df2 == CoerceCol(CoerceCol(CoerceCol(df1, "year"), "avgRating"), "n")
    IN  IF DropNaRaises(df2, {"year", "avgRating"}) THEN {Raise("KeyError")}
        ELSE {Ok(DropNa(df2, {"year", "avgRating"}))}

(* ---------------- agg_movies_by_genre ---------------- *)
GenreFields == <<"_id", "count">>
UnwindFirst(hit) ==
    {<<i, 1>> : i \in {j \in hit : movies[j].genres.t = "arr" /\ movies[j].genres.a # <<>>}}
(* {"$unwind": "$genres"}: one document per array element *)
Unwind(hit) ==
    UNION {{<<i, k>> : k \in DOMAIN movies[i].genres.a} :
              i \in {j \in hit : movies[j].genres.t = "arr"}}
Lower(s) == CASE s = "Drama" -> "drama" [] s = "Comedy" -> "comedy" [] OTHER -> s
UnwoundGenreFolded(p) == Lower(movies[p[1]].genres.a[p[2]])
(* the value of genres in an unwound document *)
UnwoundGenre(p) == movies[p[1]].genres.a[p[2]]
(* {"$group": {"_id": "$genres", "count": {"$sum": 1}}} *)
GroupByGenre(pairs) ==
    LET Members(g) == {p \in pairs : UnwoundGenre(p) = g}
        cnt(g) == SumF([p \in Members(g) |-> movies[p[1]].copies], Members(g))
    IN  {GroupDoc([c \in Range(GenreFields) |->
                     CASE c = "_id" -> Str(g) [] c = "count" -> Num(cnt(g))]) :
            g \in {UnwoundGenre(p) : p \in pairs}}
(* {"$sort": {"count": -1}}: equal counts come in any order *)
SortByCountDesc(docs) ==
    {p \in Perms(docs) :
        \A i \in 1..(Cardinality(docs) - 1) :
            ~BsonLess(p[i].doc["count"], p[i + 1].doc["count"])}

agg_movies_by_genre(year_min, year_max, min_r) ==
    LET hit == {i \in DOMAIN movies :
                  /\ MatchYear(movies[i], year_min, year_max)
                  /\ MatchRating(movies[i], min_r)
                  /\ MatchGenresNotNull(movies[i])}
    IN  {Ok(CoerceCol(Rename(to_df(cur, FALSE, GenreFields), "_id", "genre"), "count")) :
            cur \in SortByCountDesc(GroupByGenre(Unwind(hit)))}

(* ---------------- list_genres ---------------- *)
list_genres ==
    LET docs == {GroupDoc([c \in {"_id"} |-> Str(d.doc["_id"].s)]) :
                    d \in GroupByGenre(Unwind(DOMAIN movies))}
        sorted == SortByIdAsc(docs)
    IN  {OkList([i \in DOMAIN sorted |-> sorted[i].doc["_id"].s])}

(* ---------------- years_min_max ---------------- *)
(* $min / $max skip null; null when nothing else is there *)
BsonMin(S) == LET T == {v \in S : v.t \notin {"null", "missing"}}
              IN  IF T = {} THEN Null
                  ELSE CHOOSE v \in T : \A w \in T : ~BsonLess(w, v)
BsonMax(S) == LET T == {v \in S : v.t \notin {"null", "missing"}}
              IN  IF T = {} THEN Null
                  ELSE CHOOSE v \in T : \A w \in T : ~BsonLess(v, w)
(* Python int(x): [ok, v] *)
ParseInt(s) == IF s = "1987" THEN [ok |-> TRUE, v |-> 1987] ELSE [ok |-> FALSE, v |-> 0]
PyInt(v) == CASE v.t = "num" -> [ok |-> TRUE, v |-> v.n \div v.q]
              [] v.t = "str" -> ParseInt(v.s)
              [] OTHER -> [ok |-> FALSE, v |-> 0]

YearExists(d) == d.year.t # "missing"

years_min_max ==
    LET ys == {movies[i].year : i \in {j \in DOMAIN movies : YearExists(movies[j])}}
        minY == BsonMin(ys)
        maxY == BsonMax(ys)
    IN  IF ys = {} \/ minY.t = "null" \/ maxY.t = "null"
        THEN {OkPair(DEFAULT_YMIN, DEFAULT_YMAX)}
        ELSE IF PyInt(minY).ok /\ PyInt(maxY).ok
             THEN {OkPair(PyInt(minY).v, PyInt(maxY).v)}
             ELSE {OkPair(DEFAULT_YMIN, DEFAULT_YMAX)}

(* ---------------- comments_over_time ---------------- *)
DayFields == <<"_id", "comments">>
HoursPerDay == 24
DateTruncDay(v) == Date((v.n \div HoursPerDay) * HoursPerDay)
comments_over_time ==
    LET hit == {i \in DOMAIN comments : comments[i].date.t = "date"}
        days == {DateTruncDay(comments[i].date) : i \in hit}
        docs == {GroupDoc([c \in Range(DayFields) |->
                    CASE c = "_id" -> d
                      [] c = "comments" ->
                           Num(Cardinality({i \in hit : DateTruncDay(comments[i].date) = d}))]) :
                    d \in days}
        df0 == to_df(SortByIdAsc(docs), FALSE, DayFields)
    IN  {Ok(CoerceCol(Rename(df0, "_id", "date"), "comments"))}


(* ---------------- st.cache_data(ttl=60) ---------------- *)
NoArgs == [y1 |-> 0, y2 |-> 0, g |-> <<>>, r |-> 0]
Args(year_min, year_max, genres, min_r) ==
    [y1 |-> year_min, y2 |-> year_max, g |-> genres, r |-> min_r]
NoCall == [n |-> 0, fn |-> "none", args |-> NoArgs, hit |-> FALSE, storeOk |-> TRUE,
           out |-> Ok(EmptyDF)]
NoError == [kind |-> "", at |-> ""]
NoScreen == [kpis |-> <<>>, top |-> "", prettyCols |-> <<>>, avg |-> "", genre |-> "",
             comments |-> "", raw |-> 0]
DefaultSess == [year |-> "default", rating |-> DEFAULT_MIN_RATING]

(* a stored entry is served while the clock is before createdAt + ttl; at   *)
(* createdAt + ttl it has expired                                          *)
Fresh(e) == clock < e.createdAt + TTL
(* the entries left once the result of `key` is stored *)
StoreEntry(fn, args, out) ==
    {e \in cache : ~(e.fn = fn /\ e.args = args)}
        \cup {[fn |-> fn, args |-> args, value |-> out, createdAt |-> clock]}

(* One call of a cached function: `outs` is what its body can return with  *)
(* the store answering, `out` what the caller gets.                        *)
CachedCall(fn, args, outs, out) ==
    LET hits == {e \in cache : e.fn = fn /\ e.args = args /\ Fresh(e)}
        Log(hit, ok) == [n |-> last.n + 1, fn |-> fn, args |-> args, hit |-> hit,
                         storeOk |-> ok, out |-> out]
    IN  /\ invoked' = invoked \cup {fn}
        /\ IF hits # {}
           THEN /\ \E e \in hits : out = e.value
                /\ UNCHANGED <<cache, requests>>
                /\ last' = Log(TRUE, TRUE)
           ELSE /\ requests' = requests + 1
                /\ \/ /\ out = Raise("PyMongoError")
                      /\ cache' = cache
                      /\ last' = Log(FALSE, FALSE)
                   \/ /\ out \in outs
                      /\ cache' = IF out.st = "ok" THEN StoreEntry(fn, args, out)
                                  ELSE cache
                      /\ last' = Log(FALSE, TRUE)

DashInit ==
    /\ handle = FALSE
    /\ clock = 0 /\ cache = {} /\ requests = 0
    /\ pc = "connect" /\ runs = 1 /\ pings = 0 /\ invoked = {} /\ error = NoError
    /\ sess = DefaultSess
    /\ all_genres = <<>>
    /\ movies_df = EmptyDF /\ avg_year_df = EmptyDF
    /\ genre_df = EmptyDF /\ comments_df = EmptyDF
    /\ screen = NoScreen
    /\ last = NoCall

(* ---------------- the query functions on their own ---------------- *)
YearChoices == {1999, 2001}
GenreChoices == {<<>>, <<"Drama">>, <<"Comedy", "Drama">>}
RatingChoices == {60, 75}

NoRes == [fn |-> "none", out |-> Ok(EmptyDF)]

InitQ ==
    /\ movies \in SeqsUpTo(SampleMovies, MaxDocs)
    /\ comments \in SampleComments
    /\ year_range \in {<<lo, hi>> \in YearChoices \X YearChoices : lo <= hi}
    /\ sel_genres \in GenreChoices
    /\ min_rating \in RatingChoices
    /\ res = NoRes
    /\ DashInit

(* the function is applied once to the drawn store and filter *)
Apply(fn, outs) ==
    /\ res = NoRes
    /\ \E o \in outs : res' = [fn |-> fn, out |-> o]
    /\ UNCHANGED <<store, filter, dash>>

QMoviesFiltered ==
    Apply("movies_filtered",
          movies_filtered(year_range[1], year_range[2], sel_genres, min_rating))
QAvgRatingByYear ==
    Apply("agg_avg_rating_by_year",
          agg_avg_rating_by_year(year_range[1], year_range[2], sel_genres, min_rating))
QMoviesByGenre ==
    Apply("agg_movies_by_genre",
          agg_movies_by_genre(year_range[1], year_range[2], min_rating))
QCommentsOverTime == Apply("comments_over_time", comments_over_time)
QListGenres == Apply("list_genres", list_genres)
QYearsMinMax == Apply("years_min_max", years_min_max)

NextQ == \/ QMoviesFiltered
         \/ QAvgRatingByYear
         \/ QMoviesByGenre
         \/ QCommentsOverTime
         \/ QListGenres
         \/ QYearsMinMax

SpecQ == InitQ /\ [][NextQ]_vars

(* ---------------- a dashboard run ---------------- *)
DashMovies == {
    <<>>,
    <<Movie("A", Num(1999), Num(81), Arr(<<"Drama">>), 1),
      Movie("B", Num(2001), Num(70), Arr(<<"Drama", "Comedy">>), 1),
      Movie("C", Num(2001), Num(59), Arr(<<"Comedy">>), 1)>>,
    <<Movie("A", Num(1999), Num(81), Arr(<<"Drama">>), 1),
      Movie("E", Str("2006x"), Num(81), Arr(<<"Drama">>), 1)>> }
DashComments == {c \in SampleComments : Len(c) # 2}
(* the user moves the year slider and the rating slider; the genre         *)
(* selection stays at its default                                          *)
SessChoices == [year : {"default", "single"}, rating : {DEFAULT_MIN_RATING, 85}]

Init ==
    /\ movies \in DashMovies
    /\ comments \in DashComments
    /\ year_range = <<0, 0>> /\ sel_genres = <<>> /\ min_rating = DEFAULT_MIN_RATING
    /\ res = NoRes
    /\ DashInit

(* what the caller of a cached function can get *)
Outcomes(outs) == outs \cup {Raise("PyMongoError")} \cup {e.value : e \in cache}

(* an exception nobody catches ends the run *)
Crash(out) == /\ pc' = "crashed"
              /\ error' = [kind |-> out.err, at |-> pc]

AfterConnectFailureContinue == "bounds"
(* where the run goes when get_db raised: st.error(...), st.stop() *)
AfterConnectFailure == "stopped"

(* lines 36-41: db = get_db() under st.cache_resource *)
Connect ==
    /\ pc = "connect"
    /\ IF handle
       THEN /\ pc' = "bounds"
            /\ UNCHANGED <<handle, pings, error>>
       ELSE /\ pings' = pings + 1
            /\ \E ok \in BOOLEAN :
                 IF ok THEN /\ handle' = TRUE
                            /\ pc' = "bounds"
                            /\ UNCHANGED error
                 ELSE /\ handle' = FALSE
                      /\ pc' = AfterConnectFailure
                      /\ error' = [kind |-> "connect", at |-> "connect"]
    /\ UNCHANGED <<store, filter, clock, cache, requests, runs, invoked, sess, locals,
                   screen, last, res>>

(* lines 88-93: ymin, ymax = years_min_max(); the year slider *)
SidebarYear ==
    /\ pc = "bounds"
    /\ \E out \in Outcomes(years_min_max) :
         /\ CachedCall("years_min_max", NoArgs, years_min_max, out)
         /\ IF out.st = "raise"
            THEN Crash(out) /\ UNCHANGED year_range
            ELSE LET b == IF out.pair[1] > out.pair[2]
                          THEN <<DEFAULT_YMIN, DEFAULT_YMAX>> ELSE out.pair
                 IN  /\ year_range' = IF sess.year = "default" THEN b ELSE <<b[1], b[1]>>
                     /\ pc' = "genres"
                     /\ UNCHANGED error
    /\ UNCHANGED <<store, sel_genres, min_rating, handle, clock, runs, pings, sess,
                   locals, screen, res>>

(* lines 95-99: all_genres = list_genres(); the genre and rating widgets *)
SidebarGenres ==
    /\ pc = "genres"
    /\ \E out \in Outcomes(list_genres) :
         /\ CachedCall("list_genres", NoArgs, list_genres, out)
         /\ IF out.st = "raise"
            THEN Crash(out) /\ UNCHANGED <<all_genres, sel_genres, min_rating>>
            ELSE /\ all_genres' = out.list
                 /\ sel_genres' = SubSeq(out.list, 1, Min(3, Len(out.list)))
                 /\ min_rating' = sess.rating
                 /\ pc' = "movies"
                 /\ UNCHANGED error
    /\ UNCHANGED <<store, year_range, handle, clock, runs, pings, sess,
                   movies_df, avg_year_df, genre_df, comments_df, screen, res>>

(* line 193 *)
RunMoviesFiltered ==
    /\ pc = "movies"
    /\ LET outs == movies_filtered(year_range[1], year_range[2], sel_genres, min_rating)
       IN  \E out \in Outcomes(outs) :
             /\ CachedCall("movies_filtered",
                           Args(year_range[1], year_range[2], sel_genres, min_rating),
                           outs, out)
             /\ IF out.st = "raise"
                THEN Crash(out) /\ UNCHANGED movies_df
                ELSE movies_df' = out.df /\ pc' = "avg" /\ UNCHANGED error
    /\ UNCHANGED <<store, filter, handle, clock, runs, pings, sess, all_genres,
                   avg_year_df, genre_df, comments_df, screen, res>>

(* line 194 *)
RunAvgRatingByYear ==
    /\ pc = "avg"
    /\ LET outs == agg_avg_rating_by_year(year_range[1], year_range[2], sel_genres,
                                          min_rating)
       IN  \E out \in Outcomes(outs) :
             /\ CachedCall("agg_avg_rating_by_year",
                           Args(year_range[1], year_range[2], sel_genres, min_rating),
                           outs, out)
             /\ IF out.st = "raise"
                THEN Crash(out) /\ UNCHANGED avg_year_df
                ELSE avg_year_df' = out.df /\ pc' = "bygenre" /\ UNCHANGED error
    /\ UNCHANGED <<store, filter, handle, clock, runs, pings, sess, all_genres,
                   movies_df, genre_df, comments_df, screen, res>>

(* line 195 *)
RunMoviesByGenre ==
    /\ pc = "bygenre"
    /\ LET outs == agg_movies_by_genre(year_range[1], year_range[2], min_rating)
       IN  \E out \in Outcomes(outs) :
             /\ CachedCall("agg_movies_by_genre",
                           Args(year_range[1], year_range[2], <<>>, min_rating),
                           outs, out)
             /\ IF out.st = "raise"
                THEN Crash(out) /\ UNCHANGED genre_df
                ELSE genre_df' = out.df /\ pc' = "comments" /\ UNCHANGED error
    /\ UNCHANGED <<store, filter, handle, clock, runs, pings, sess, all_genres,
                   movies_df, avg_year_df, comments_df, screen, res>>

(* line 196 *)
RunCommentsOverTime ==
    /\ pc = "comments"
    /\ \E out \in Outcomes(comments_over_time) :
         /\ CachedCall("comments_over_time", NoArgs, comments_over_time, out)
         /\ IF out.st = "raise"
            THEN Crash(out) /\ UNCHANGED comments_df
            ELSE comments_df' = out.df /\ pc' = "render" /\ UNCHANGED error
    /\ UNCHANGED <<store, filter, handle, clock, runs, pings, sess, all_genres,
                   movies_df, avg_year_df, genre_df, screen, res>>

(* df[cols] *)
SelectCols(df, cols) ==
    [cols |-> cols,
     rows |-> [i \in DOMAIN df.rows |->
                 [cells |-> [c \in Range(cols) |-> df.rows[i].cells[c]],
                  copies |-> df.rows[i].copies]]]
ColumnSum(df, c) ==
    SumF([i \in DOMAIN df.rows |-> (df.rows[i].cells[c].n \div df.rows[i].cells[c].q)
                                     * df.rows[i].copies], DOMAIN df.rows)

(* lines 201-294: KPIs, the four sections, the raw explorer *)
Render ==
    /\ pc = "render"
    /\ LET pretty == Rename(movies_df, "imdb.rating", "rating")
           InAvg(c) == c \in Columns(avg_year_df)
           needed_cols == SelectSeq(<<"year", "avgRating", "n">>, InAvg)
           a0 == IF needed_cols # <<>> THEN SelectCols(avg_year_df, needed_cols)
                 ELSE [cols |-> <<"year", "avgRating", "n">>, rows |-> <<>>]
           a1 == CoerceCol(CoerceCol(CoerceCol(a0, "year"), "avgRating"), "n")
       IN  IF DropNaRaises(a1, {"year", "avgRating"})
           THEN /\ Crash(Raise("KeyError"))
                /\ UNCHANGED <<screen, avg_year_df>>
           ELSE /\ avg_year_df' = DropNa(a1, {"year", "avgRating"})
                /\ screen' =
                     [kpis |-> <<RowCount(movies_df), RowCount(genre_df),
                                 IF IsEmpty(comments_df) THEN 0
                                 ELSE ColumnSum(comments_df, "comments")>>,
                      top |-> IF IsEmpty(movies_df) THEN "info" ELSE "table",
                      prettyCols |-> IF IsEmpty(movies_df) THEN <<>> ELSE pretty.cols,
                      avg |-> IF IsEmpty(avg_year_df') THEN "info" ELSE "chart",
                      genre |-> IF \/ IsEmpty(genre_df)
                                   \/ "genre" \notin Columns(genre_df)
                                   \/ "count" \notin Columns(genre_df)
                                THEN "info" ELSE "chart",
                      comments |-> IF \/ IsEmpty(comments_df)
                                      \/ "date" \notin Columns(comments_df)
                                      \/ "comments" \notin Columns(comments_df)
                                   THEN "info" ELSE "chart",
                      raw |-> RowCount([movies_df EXCEPT !.rows = Head_(@, 100)])]
                /\ pc' = "done"
                /\ UNCHANGED error
    /\ UNCHANGED <<store, filter, handle, clock, cache, requests, runs, pings, invoked,
                   sess, all_genres, movies_df, genre_df, comments_df, last, res>>

Ended == pc \in {"done", "stopped", "crashed"}
(* the sidebar widgets are on the page the run left behind *)
WidgetsShown ==
    \/ pc = "done"
    \/ pc = "crashed" /\ error.at \in {"movies", "avg", "bygenre", "comments", "render"}

(* the user changes a widget or reloads: the script runs again from the top *)
Rerun ==
    /\ Ended
    /\ runs < MaxRuns
    /\ \E s \in SessChoices : (s = sess \/ WidgetsShown) /\ sess' = s
    /\ runs' = runs + 1
    /\ pc' = "connect" /\ pings' = 0 /\ invoked' = {} /\ error' = NoError
    /\ year_range' = <<0, 0>> /\ sel_genres' = <<>> /\ min_rating' = DEFAULT_MIN_RATING
    /\ all_genres' = <<>>
    /\ movies_df' = EmptyDF /\ avg_year_df' = EmptyDF
    /\ genre_df' = EmptyDF /\ comments_df' = EmptyDF
    /\ screen' = NoScreen
    /\ UNCHANGED <<store, handle, clock, cache, requests, last, res>>

(* time passes *)
Tick ==
    /\ clock + TickStep <= MaxClock
    /\ clock' = clock + TickStep
    /\ UNCHANGED <<store, filter, handle, cache, requests, pc, runs, pings, invoked,
                   error, sess, locals, screen, last, res>>

Next == \/ Connect
        \/ SidebarYear
        \/ SidebarGenres
        \/ RunMoviesFiltered
        \/ RunAvgRatingByYear
        \/ RunMoviesByGenre
        \/ RunCommentsOverTime
        \/ Render
        \/ Rerun
        \/ Tick

Spec == Init /\ [][Next]_vars

(* ======================= the claims ======================= *)
StoredAs(r) == {i \in DOMAIN movies : movies[i].title = r.cells["title"].s}
InYearRange(d) == /\ d.year.t = "num"
                  /\ year_range[1] <= d.year.n /\ d.year.n <= year_range[2]
RatedAtLeast(d) == d.rating.t = "num" /\ d.rating.n >= min_rating
Rows == res.out.df.rows

(* C1: movies_filtered returns at most 1000 rows; every row comes from a   *)
(* document with a numeric imdb.rating >= min_r, a year within            *)
(* [year_min, year_max] and, for a non-empty genre list, a selected genre; *)
(* an empty genre list restricts nothing (all documents passing the year   *)
(* and rating filter are returned, up to the cap).                         *)
C1_FilteredMovies ==
    res.fn = "movies_filtered" =>
        /\ res.out.st = "ok"
        /\ RowCount(res.out.df) <= 1000
        /\ \A k \in DOMAIN Rows : \E i \in StoredAs(Rows[k]) :
              /\ RatedAtLeast(movies[i])
              /\ InYearRange(movies[i])
              /\ sel_genres # <<>> =>
                    /\ movies[i].genres.t = "arr"
                    /\ Range(movies[i].genres.a) \cap Range(sel_genres) # {}
        /\ sel_genres = <<>> =>
              LET pass == {i \in DOMAIN movies :
                             RatedAtLeast(movies[i]) /\ InYearRange(movies[i])}
              IN  RowCount(res.out.df) =
                      Min(1000, SumF([i \in pass |-> movies[i].copies], pass))
C1_Witness ==
    /\ res.fn = "movies_filtered"
    /\ sel_genres # <<>>
    /\ RowCount(res.out.df) = 1000
    /\ Len(Rows) = 2

(* C3 as stated: every query returns a table and never fails, also when no *)
(* document passes the filter.                                             *)
C3_Original ==
    res.fn \in {"movies_filtered", "agg_avg_rating_by_year", "agg_movies_by_genre",
                "comments_over_time"} => res.out.st = "ok"

(* C5 as stated: years_min_max returns the min and max over the documents  *)
(* whose year is numeric, and the default only when there is none.         *)
C5_Original ==
    res.fn = "years_min_max" =>
        LET ys == {movies[i].year.n : i \in {j \in DOMAIN movies : movies[j].year.t = "num"}}
        IN  IF ys = {} THEN res.out.pair = <<2000, 2025>>
            ELSE /\ res.out.pair[1] \in ys /\ \A y \in ys : res.out.pair[1] <= y
                 /\ res.out.pair[2] \in ys /\ \A y \in ys : res.out.pair[2] >= y

(* the documents that pass the year and rating filter and hold a genre list *)
C6_Passing == {i \in DOMAIN movies : /\ RatedAtLeast(movies[i]) /\ InYearRange(movies[i])
                                     /\ movies[i].genres.t = "arr"}

(* C6: the count column of agg_movies_by_genre sums to the number of       *)
(* (document, genre) pairs of the documents passing the year and rating    *)
(* filter, there is one row per distinct genre, and counts descend.        *)
C6_MoviesByGenre ==
    res.fn = "agg_movies_by_genre" =>
        /\ res.out.st = "ok"
        /\ ColumnSum(res.out.df, "count") =
              SumF([i \in C6_Passing |-> movies[i].copies * Len(movies[i].genres.a)],
                   C6_Passing)
        /\ \A k, l \in DOMAIN Rows :
              k # l => Rows[k].cells["genre"].s # Rows[l].cells["genre"].s
        /\ \A i \in C6_Passing : \A g \in Range(movies[i].genres.a) :
              \E k \in DOMAIN Rows : Rows[k].cells["genre"].s = g
        /\ \A k \in DOMAIN Rows :
              k + 1 \in DOMAIN Rows =>
                  Rows[k].cells["count"].n >= Rows[k + 1].cells["count"].n
C6_Witness ==
    /\ res.fn = "agg_movies_by_genre"
    /\ Len(Rows) >= 2
    /\ \E i \in C6_Passing : Len(movies[i].genres.a) >= 2
    /\ \E k \in DOMAIN Rows : Rows[k].cells["count"].n > BigBatch

(* C7: the rows of agg_avg_rating_by_year are in strictly ascending order  *)
(* of year (after coercion and dropna), so no year occurs twice.           *)
C7_AvgByYearAscending ==
    (res.fn = "agg_avg_rating_by_year" /\ res.out.st = "ok") =>
        \A k \in DOMAIN Rows :
            /\ Rows[k].cells["year"].t = "num"
            /\ k + 1 \in DOMAIN Rows =>
                  Rows[k].cells["year"].n < Rows[k + 1].cells["year"].n
C7_Witness ==
    /\ res.fn = "agg_avg_rating_by_year"
    /\ res.out.st = "ok"
    /\ Len(Rows) >= 2

(* C9 as stated: list_genres and agg_movies_by_genre fold genres to        *)
(* lowercase before grouping.                                              *)
C9_Original ==
    /\ res.fn = "list_genres" =>
          \A k \in DOMAIN res.out.list : res.out.list[k] = Lower(res.out.list[k])
    /\ res.fn = "agg_movies_by_genre" =>
          \A k \in DOMAIN Rows : Rows[k].cells["genre"].s = Lower(Rows[k].cells["genre"].s)

(* how often document i lists the genre spelled g *)
C9_Occurrences(i, g) == Cardinality({k \in DOMAIN movies[i].genres.a : movies[i].genres.a[k] = g})

(* C9 amended: list_genres and agg_movies_by_genre group genre strings     *)
(* exactly as stored, so "Drama" and "drama" are two entries, each with    *)
(* its own count; movies_filtered leaves each genre list as stored.        *)
C9_GenresAsStored ==
    /\ res.fn = "list_genres" =>
          /\ Range(res.out.list) =
                UNION {Range(movies[i].genres.a) : i \in DOMAIN movies}
          /\ \A k, l \in DOMAIN res.out.list : k # l => res.out.list[k] # res.out.list[l]
    /\ res.fn = "agg_movies_by_genre" =>
          /\ \A k \in DOMAIN Rows :
                Rows[k].cells["count"].n =
                    SumF([i \in C6_Passing |->
                             movies[i].copies * C9_Occurrences(i, Rows[k].cells["genre"].s)],
                         C6_Passing)
          /\ \A i \in C6_Passing : \A g \in Range(movies[i].genres.a) :
                \E k \in DOMAIN Rows : Rows[k].cells["genre"].s = g
    /\ res.fn = "movies_filtered" =>
          \A k \in DOMAIN Rows : "genres" \in Columns(res.out.df) =>
              \E i \in StoredAs(Rows[k]) :
                  Rows[k].cells["genres"] = movies[i].genres
C9_Witness ==
    /\ res.fn = "agg_movies_by_genre"
    /\ \E k, l \in DOMAIN Rows :
          /\ Rows[k].cells["genre"].s = "Drama"
          /\ Rows[l].cells["genre"].s = "drama"
          /\ Rows[k].cells["count"].n # Rows[l].cells["count"].n

(* C10 as stated: every row of movies_filtered carries imdb.rating as a    *)
(* top-level numeric column, so the coercion applies and the rename to     *)
(* "rating" takes effect.                                                  *)
C10_Original ==
    (res.fn = "movies_filtered" /\ RowCount(res.out.df) > 0) =>
        /\ "imdb.rating" \in Columns(res.out.df)
        /\ \A k \in DOMAIN Rows : Rows[k].cells["imdb.rating"].t \in {"num", "nan"}
        /\ "rating" \in Columns(Rename(res.out.df, "imdb.rating", "rating"))

(* C2 as stated: a call with an entry no older than the ttl returns it and *)
(* issues no store request; any other call issues exactly one request and  *)
(* stores its result with the current time; one entry per key.             *)
C2_Original ==
    [][last'.n # last.n =>
         LET usable == {e \in cache : /\ e.fn = last'.fn /\ e.args = last'.args
                                      /\ clock - e.createdAt <= TTL}
         IN  /\ IF usable # {}
                THEN /\ requests' = requests
                     /\ \E e \in usable : last'.out = e.value
                ELSE /\ requests' = requests + 1
                     /\ last'.storeOk =>
                           \E e \in cache' : /\ e.fn = last'.fn /\ e.args = last'.args
                                             /\ e.createdAt = clock
                                             /\ e.value = last'.out
             /\ \A e1, e2 \in cache' :
                   (e1.fn = e2.fn /\ e1.args = e2.args) => e1 = e2]_vars

(* C4 as stated: a failed aggregation request is caught at the call site   *)
(* and the run never ends with an unhandled error.                         *)
C4_Original == ~(pc = "crashed" /\ error.kind = "PyMongoError")

(* C8: when the ping of get_db fails, the run reports it and halts: no     *)
(* query function is invoked in that run and the ping is not repeated.     *)
C8_HaltOnPingFailure ==
    error.kind = "connect" =>
        /\ pc = "stopped"
        /\ invoked = {}
        /\ pings = 1
        /\ ~handle
C8_Witness ==
    /\ pc = "stopped"
    /\ error.kind = "connect"
    /\ runs = 2

====
